---------------------------- MODULE Spec2Model ----------------------------
(***************************************************************************)
(* MazeGame: the maze generator (MazeGenerator.generate), the tile grid    *)
(* (TileMap), the collision system (CollisionSystem), the input system     *)
(* (InputSystem), the entities (BaseEntity, Player) and the engine         *)
(* (GameEngine: start/pause/resume/stop, gameLoop, update, checkGameState, *)
(* restart), as a state machine.                                           *)
(*                                                                         *)
(* Units.  The source works in pixels and milliseconds with IEEE doubles.  *)
(* Every length the program produces from its own constants is a multiple  *)
(* of half a pixel (150 px/s * (1000/60 ms) / 1000 = 2.5 px, exactly, also *)
(* in doubles), so lengths are integers counting HALF PIXELS: HalfPx(32)   *)
(* is the 32 px tile.  Time is counted in ticks of frameTime/TicksPerStep. *)
(***************************************************************************)
EXTENDS Integers, Sequences, FiniteSets, TLC

VARIABLES
    \* ---- MazeGenerator.generate(): its locals, one loop iteration per step
    tileMap,        \* the TileMap being built, later the engine's tileMap
    stack,          \* stack: Vector2D[]
    visited,        \* visited[y][x] = true, as the set of cells <<x, y>>
    genPc,          \* "carve" | "end" | "done": position inside generate()
    \* ---- GameEngine
    running,        \* this.running
    paused,         \* this.paused
    state,          \* this.state : GameState
    sinceLast,      \* performance.now() - this.lastTime, in ticks
    accumulator,    \* this.accumulator, in ticks
    entities,       \* this.entities : Entity[]
    player,         \* this.player, as an index into entities; 0 is null
    mapSet,         \* this.tileMap # null
    pending,        \* requestAnimationFrame callbacks scheduled, not yet run
    \* ---- InputSystem
    keys,           \* this.keys, as the set of key names that are true
    previousKeys,   \* this.previousKeys, likewise
    \* ---- what the last step did (history, written by every action)
    last,           \* [steps, restarted, armed, wasArmed]
    \* ---- a second run of the same game, for comparing two runs
    twin

vars == <<tileMap, stack, visited, genPc, running, paused, state, sinceLast,
          accumulator, entities, player, mapSet, pending, keys, previousKeys,
          last, twin>>

genVars == <<tileMap, stack, visited, genPc>>
engVars == <<running, paused, state, sinceLast, accumulator, entities, player,
             mapSet, pending, keys, previousKeys>>

-----------------------------------------------------------------------------
(* Bounds of the model                                                     *)

\* SpecGen generates mazes of every width and height in 3..GenMaxDim
GenMaxDim == 7

-----------------------------------------------------------------------------
(* History                                                                 *)

\* What the last step did: steps, the number of update() calls it made (only a
\* frame callback makes any), and restarted, the number of restart() calls;
\* armed: the key "space" went from released to pressed while gameOver held,
\* is still held, and no update() has run since; wasArmed: armed, before a
\* step that ran update().
Hist(steps, restarts, armed) ==
    [steps |-> steps, restarted |-> restarts, armed |-> armed,
     wasArmed |-> steps > 0 /\ last.armed]

\* no second run has been set off
NoTwin == [forked |-> FALSE]

NoHistory ==
    [steps |-> 0, restarted |-> 0, armed |-> FALSE, wasArmed |-> FALSE]

-----------------------------------------------------------------------------
(* types.ts                                                                *)

EMPTY == 0
WALL  == 1
START == 2
END   == 3
PATH  == 4

HalfPx(px) == 2 * px

-----------------------------------------------------------------------------
(* TileMap                                                                 *)

\* the tile literals the source writes (id, spriteId, properties carry nothing)
EmptyTile == [type |-> EMPTY, solid |-> FALSE]
WallTile  == [type |-> WALL,  solid |-> TRUE]
StartTile == [type |-> START, solid |-> FALSE]
EndTile   == [type |-> END,   solid |-> FALSE]
PathTileSolid == [type |-> PATH, solid |-> TRUE]
PathTile  == [type |-> PATH,  solid |-> FALSE]
\* getTile's null
NullTile  == [type |-> -1, solid |-> FALSE]

\* new TileMap(width, height, tileSize)
NewTileMap(w, h, ts) ==
    [width |-> w, height |-> h, tileSize |-> ts, layers |-> <<>>]

\* TileMap.createLayer(id): rows 0..height-1 of columns 0..width-1, all EMPTY
createLayer(tm, id) ==
    [tm EXCEPT !.layers = Append(@,
        [id |-> id, visible |-> TRUE,
         tiles |-> [y \in 0..(tm.height - 1) |->
                       [x \in 0..(tm.width - 1) |-> EmptyTile]]])]

\* the bounds test shared by getTile and setTile (layerIndex is 0-based)
OutOfRange(tm, layerIndex, x, y) ==
    \/ layerIndex < 0
    \/ layerIndex >= Len(tm.layers)
    \/ x < 0
    \/ x >= tm.width
    \/ y < 0
    \/ y >= tm.height

\* TileMap.getTile(layerIndex, x, y)
getTileEmptyOutside(tm, layerIndex, x, y) ==
    IF OutOfRange(tm, layerIndex, x, y)
    THEN EmptyTile
    ELSE tm.layers[layerIndex + 1].tiles[y][x]

\* TileMap.getTile(layerIndex, x, y)
getTile(tm, layerIndex, x, y) ==
    IF OutOfRange(tm, layerIndex, x, y)
    THEN NullTile
    ELSE tm.layers[layerIndex + 1].tiles[y][x]

\* TileMap.setTile(layerIndex, x, y, tile)
setTile(tm, layerIndex, x, y, tile) ==
    IF OutOfRange(tm, layerIndex, x, y)
    THEN tm
    ELSE [tm EXCEPT !.layers[layerIndex + 1].tiles[y][x] = tile]

\* TileMap.isSolid(x, y): some layer has a solid tile there
isSolid(tm, x, y) ==
    \E i \in 0..(Len(tm.layers) - 1) :
        LET tile == getTile(tm, i, x, y) IN tile # NullTile /\ tile.solid

-----------------------------------------------------------------------------
(* MazeGenerator                                                           *)

startX == 1
startY == 1

\* the tile size generate() passes to new TileMap
tileSize == HalfPx(32)

\* "Initialize all cells as walls": setTile(0, x, y, WALL) for every cell
FillWalls(tm) ==
    [tm EXCEPT !.layers[1].tiles =
        [y \in 0..(tm.height - 1) |-> [x \in 0..(tm.width - 1) |-> WallTile]]]

\* generate() up to the carving loop: the map, the stack, visited, the start
GenerateBegin(w, h) ==
    /\ tileMap = setTile(FillWalls(createLayer(NewTileMap(w, h, tileSize), "maze")),
                         0, startX, startY, StartTile)
    /\ stack = <<[x |-> startX, y |-> startY]>>
    /\ visited = {<<startX, startY>>}
    /\ genPc = "carve"

\* directions, in the order the source lists them: Up, Right, Down, Left
directions == << [x |-> 0, y |-> -2], [x |-> 2, y |-> 0],
                 [x |-> 0, y |-> 2],  [x |-> -2, y |-> 0] >>

\* (mutant) the neighbour test without the visited check
ValidNeighborIgnoringVisited(tm, vis, nx, ny) ==
    /\ nx > 0 /\ nx < tm.width - 1
    /\ ny > 0 /\ ny < tm.height - 1

\* (mutant) the neighbour test with the border rows and columns allowed
ValidNeighborOnBorder(tm, vis, nx, ny) ==
    /\ nx >= 0 /\ nx <= tm.width - 1
    /\ ny >= 0 /\ ny <= tm.height - 1
    /\ <<nx, ny>> \notin vis

\* "Check if neighbor is valid and unvisited"
ValidNeighbor(tm, vis, nx, ny) ==
    /\ nx > 0 /\ nx < tm.width - 1
    /\ ny > 0 /\ ny < tm.height - 1
    /\ <<nx, ny>> \notin vis

\* neighbors[]: the valid unvisited neighbours of current, in direction order
RECURSIVE NeighborsFrom(_, _, _, _)
NeighborsFrom(tm, vis, current, i) ==
    IF i > Len(directions) THEN <<>>
    ELSE LET nx == current.x + directions[i].x
             ny == current.y + directions[i].y
             rest == NeighborsFrom(tm, vis, current, i + 1)
         IN  IF ValidNeighbor(tm, vis, nx, ny)
             THEN <<[x |-> nx, y |-> ny]>> \o rest
             ELSE rest

Neighbors(tm, vis, current) == NeighborsFrom(tm, vis, current, 1)

\* (mutant) carve next but leave the wall between current and next standing
CarveToKeepingWall(tm, current, next) ==
    setTile(tm, 0, next.x, next.y, PathTile)

\* (mutant) the wall is removed and next is left a wall
CarveToWallOnly(tm, current, next) ==
    LET wallX == current.x + (next.x - current.x) \div 2
        wallY == current.y + (next.y - current.y) \div 2
    IN  setTile(tm, 0, wallX, wallY, PathTile)

\* "Remove the wall between current and next", then carve next
CarveTo(tm, current, next) ==
    LET wallX == current.x + (next.x - current.x) \div 2
        wallY == current.y + (next.y - current.y) \div 2
    IN  setTile(setTile(tm, 0, wallX, wallY, PathTile), 0, next.x, next.y, PathTile)

\* one iteration of while (stack.length > 0), neighbors.length > 0:
\* Math.random() picks any of the neighbours
Carve ==
    /\ genPc = "carve"
    /\ Len(stack) > 0
    /\ LET current == stack[Len(stack)]
           neighbors == Neighbors(tileMap, visited, current)
       IN  /\ Len(neighbors) > 0
           /\ \E k \in 1..Len(neighbors) :
                LET next == neighbors[k] IN
                /\ tileMap' = CarveTo(tileMap, current, next)
                /\ visited' = visited \cup {<<next.x, next.y>>}
                /\ stack' = Append(stack, next)
    /\ genPc' = genPc
    /\ last' = Hist(0, 0, FALSE)
    /\ UNCHANGED engVars
    /\ UNCHANGED twin

\* the iteration with no neighbour left, without its stack.pop()
BacktrackWithoutPop ==
    /\ genPc = "carve"
    /\ Len(stack) > 0
    /\ Len(Neighbors(tileMap, visited, stack[Len(stack)])) = 0
    /\ last' = Hist(0, 0, FALSE)
    /\ UNCHANGED <<tileMap, visited, stack, genPc>>
    /\ UNCHANGED engVars
    /\ UNCHANGED twin

\* one iteration with no neighbour left: stack.pop()
Backtrack ==
    /\ genPc = "carve"
    /\ Len(stack) > 0
    /\ Len(Neighbors(tileMap, visited, stack[Len(stack)])) = 0
    /\ stack' = SubSeq(stack, 1, Len(stack) - 1)
    /\ genPc' = IF Len(stack) = 1 THEN "end" ELSE "carve"
    /\ last' = Hist(0, 0, FALSE)
    /\ UNCHANGED <<tileMap, visited>>
    /\ UNCHANGED engVars
    /\ UNCHANGED twin

\* the scan "for y = 1; y < height-1; y += 2 / for x = 1; x < width-1; x += 2":
\* the cell after <<x, y>> in that order, <<-1, -1>> after the last
ScanNext(tm, x, y) ==
    IF x + 2 < tm.width - 1 THEN <<x + 2, y>>
    ELSE IF y + 2 < tm.height - 1 THEN <<1, y + 2>>
    ELSE <<-1, -1>>

\* "Set end position (furthest from start)": the scan from cell c on, with the
\* best so far; the result is <<endX, endY>>
Abs(n) == IF n < 0 THEN -n ELSE n

\* (mutant) the scan with the distance taken along x alone
RECURSIVE EndScanByColumn(_, _, _, _)
EndScanByColumn(tm, c, maxDistance, best) ==
    IF c = <<-1, -1>> THEN best
    ELSE LET x == c[1]
             y == c[2]
             distance == Abs(x - startX)
             better == /\ getTile(tm, 0, x, y).type = PATH
                       /\ distance > maxDistance
         IN  EndScanByColumn(tm, ScanNext(tm, x, y),
                             IF better THEN distance ELSE maxDistance,
                             IF better THEN <<x, y>> ELSE best)

RECURSIVE EndScan(_, _, _, _)
EndScan(tm, c, maxDistance, best) ==
    IF c = <<-1, -1>> THEN best
    ELSE LET x == c[1]
             y == c[2]
             distance == Abs(x - startX) + Abs(y - startY)
             better == /\ getTile(tm, 0, x, y).type = PATH
                       /\ distance > maxDistance
         IN  EndScan(tm, ScanNext(tm, x, y),
                     IF better THEN distance ELSE maxDistance,
                     IF better THEN <<x, y>> ELSE best)

\* the first cell of the scan, if the loops run at all
ScanFirst(tm) ==
    IF 1 < tm.height - 1 /\ 1 < tm.width - 1 THEN <<1, 1>> ELSE <<-1, -1>>

EndCell(tm) == EndScan(tm, ScanFirst(tm), 0, <<startX, startY>>)

\* the end of generate(): choose the end cell, write the END tile, return
SelectEnd ==
    /\ genPc = "end"
    /\ LET e == EndCell(tileMap) IN
       tileMap' = setTile(tileMap, 0, e[1], e[2], EndTile)
    /\ genPc' = "done"
    /\ last' = Hist(0, 0, FALSE)
    /\ UNCHANGED <<stack, visited>>
    /\ UNCHANGED engVars
    /\ UNCHANGED twin

-----------------------------------------------------------------------------
(* InputSystem                                                             *)

\* handleKeyDown / handleKeyUp: keys[event.key.toLowerCase()] = true / false
handleKeyDown(ks, k) == ks \cup {k}
handleKeyUp(ks, k) == ks \ {k}

\* isKeyDown(key) and isKeyPressed(key)
isKeyDown(ks, k) == k \in ks
isKeyPressed(ks, prev, k) == k \in ks /\ k \notin prev

\* getDirection(): the first of up, right, down, left that is held
getDirection(ks) ==
    IF isKeyDown(ks, "arrowup") \/ isKeyDown(ks, "w") THEN "UP"
    ELSE IF isKeyDown(ks, "arrowright") \/ isKeyDown(ks, "d") THEN "RIGHT"
    ELSE IF isKeyDown(ks, "arrowdown") \/ isKeyDown(ks, "s") THEN "DOWN"
    ELSE IF isKeyDown(ks, "arrowleft") \/ isKeyDown(ks, "a") THEN "LEFT"
    ELSE "NONE"

-----------------------------------------------------------------------------
(* Entity: BaseEntity and Player                                           *)

fps == 60
PlayerSpeed == 150
PlayerHealth == 100
EnemyDamage == 10
CollectibleScore == 10

\* new BaseEntity(id, x, y, width, height); x, y, width, height in half pixels,
\* velocity in pixels per second.  isPlayer is "instanceof Player"; a
\* BaseEntity has no health, score or speed (0 here).
BaseEntity(id, x, y, width, height) ==
    [id |-> id, x |-> x, y |-> y, width |-> width, height |-> height,
     velocity |-> [x |-> 0, y |-> 0], solid |-> TRUE, active |-> TRUE,
     tags |-> {}, isPlayer |-> FALSE, health |-> 0, score |-> 0, speed |-> 0]

\* new Player(id, x, y, width, height)
Player(id, x, y, width, height) ==
    [BaseEntity(id, x, y, width, height) EXCEPT
        !.isPlayer = TRUE, !.health = PlayerHealth, !.score = 0,
        !.speed = PlayerSpeed, !.tags = {"player"}]

\* (mutant) move without "Reset velocity"
moveKeepingVelocity(e, direction) ==
    CASE direction = "UP"    -> [e EXCEPT !.velocity.y = -e.speed]
      [] direction = "RIGHT" -> [e EXCEPT !.velocity.x = e.speed]
      [] direction = "DOWN"  -> [e EXCEPT !.velocity.y = e.speed]
      [] direction = "LEFT"  -> [e EXCEPT !.velocity.x = -e.speed]
      [] OTHER               -> e

\* Player.move(direction)
move(e, direction) ==
    [e EXCEPT !.velocity =
        CASE direction = "UP"    -> [x |-> 0, y |-> -e.speed]
          [] direction = "RIGHT" -> [x |-> e.speed, y |-> 0]
          [] direction = "DOWN"  -> [x |-> 0, y |-> e.speed]
          [] direction = "LEFT"  -> [x |-> -e.speed, y |-> 0]
          [] OTHER               -> [x |-> 0, y |-> 0]]

\* frameTime = 1000 / fps, in ticks
TicksPerStep == 2
frameTime == TicksPerStep

\* velocity * (deltaTime / 1000), in half pixels, for deltaTime in ticks:
\* a tick is 1000 / (fps * TicksPerStep) ms
Displacement(v, deltaTime) == (HalfPx(v) * deltaTime) \div (fps * TicksPerStep)

\* BaseEntity.update(deltaTime)
entityUpdate(e, deltaTime) ==
    [e EXCEPT !.x = @ + Displacement(e.velocity.x, deltaTime),
              !.y = @ + Displacement(e.velocity.y, deltaTime)]

\* (mutant) the handler with the two tests made one after the other, no else
onCollisionBothTests(e, other) ==
    IF ~e.isPlayer THEN e
    ELSE LET hurt == IF "enemy" \in other.tags
                     THEN [e EXCEPT !.health = @ - EnemyDamage] ELSE e
         IN  IF "collectible" \in other.tags
             THEN [hurt EXCEPT !.score = @ + CollectibleScore] ELSE hurt

\* onCollision(other): Player's handler; BaseEntity's does nothing
onCollision(e, other) ==
    IF ~e.isPlayer THEN e
    ELSE IF "enemy" \in other.tags THEN [e EXCEPT !.health = @ - EnemyDamage]
    ELSE IF "collectible" \in other.tags THEN [e EXCEPT !.score = @ + CollectibleScore]
    ELSE e

-----------------------------------------------------------------------------
(* CollisionSystem                                                         *)

Min(a, b) == IF a < b THEN a ELSE b

\* checkCollision(entity1, entity2)
checkCollision(e1, e2) ==
    IF ~e1.solid \/ ~e2.solid THEN FALSE
    ELSE /\ e1.x < e2.x + e2.width
         /\ e1.x + e1.width > e2.x
         /\ e1.y < e2.y + e2.height
         /\ e1.y + e1.height > e2.y

\* the "- 1" (one pixel) of endX and endY
OnePixel == HalfPx(1)

\* checkTileCollision(entity, tileMap).tiles: the solid tiles of the index
\* range startX..endX, startY..endY, layer by layer, row by row
checkTileCollision(e, tm) ==
    IF ~e.solid THEN <<>>
    ELSE LET sX == e.x \div tm.tileSize
             sY == e.y \div tm.tileSize
             eX == (e.x + e.width - OnePixel) \div tm.tileSize
             eY == (e.y + e.height - OnePixel) \div tm.tileSize
             nx == IF eX >= sX THEN eX - sX + 1 ELSE 0
             ny == IF eY >= sY THEN eY - sY + 1 ELSE 0
             n  == Len(tm.layers) * ny * nx
             at(i) == [layer |-> (i - 1) \div (ny * nx),
                       y |-> sY + ((i - 1) % (ny * nx)) \div nx,
                       x |-> sX + ((i - 1) % nx)]
             all == [i \in 1..n |-> at(i)]
             hit(c) == LET tile == getTile(tm, c.layer, c.x, c.y)
                       IN  tile # NullTile /\ tile.solid
         IN  SelectSeq(all, hit)

\* the loop body without its "entity.velocity.x = 0"
resolveOneTileKeepingSpeed(e, tm, x, y) ==
    LET tileX == x * tm.tileSize
        tileY == y * tm.tileSize
        overlapX == Min(e.x + e.width - tileX, tileX + tm.tileSize - e.x)
        overlapY == Min(e.y + e.height - tileY, tileY + tm.tileSize - e.y)
    IN  IF overlapX < overlapY
        THEN [e EXCEPT !.x = IF e.x < tileX THEN tileX - e.width
                                            ELSE tileX + tm.tileSize]
        ELSE [e EXCEPT !.y = IF e.y < tileY THEN tileY - e.height
                                            ELSE tileY + tm.tileSize,
                       !.velocity.y = 0]

\* the body of resolveTileCollision's loop for the tile at column x, row y
resolveOneTile(e, tm, x, y) ==
    LET tileX == x * tm.tileSize
        tileY == y * tm.tileSize
        overlapX == Min(e.x + e.width - tileX, tileX + tm.tileSize - e.x)
        overlapY == Min(e.y + e.height - tileY, tileY + tm.tileSize - e.y)
    IN  IF overlapX < overlapY
        THEN [e EXCEPT !.x = IF e.x < tileX THEN tileX - e.width
                                            ELSE tileX + tm.tileSize,
                       !.velocity.x = 0]
        ELSE [e EXCEPT !.y = IF e.y < tileY THEN tileY - e.height
                                            ELSE tileY + tm.tileSize,
                       !.velocity.y = 0]

RECURSIVE resolveTiles(_, _, _, _)
resolveTiles(e, tm, tiles, i) ==
    IF i > Len(tiles) THEN e
    ELSE resolveTiles(resolveOneTile(e, tm, tiles[i].x, tiles[i].y), tm, tiles, i + 1)

\* resolveTileCollision(entity, tileMap): the tiles found once, then each in turn
resolveTileCollision(e, tm) == resolveTiles(e, tm, checkTileCollision(e, tm), 1)

\* resolveCollision() resolving along the axis of the larger overlap
resolveCollisionLargerAxis(e1, e2) ==
    IF ~checkCollision(e1, e2) THEN <<e1, e2>>
    ELSE LET overlapX == Min(e1.x + e1.width - e2.x, e2.x + e2.width - e1.x)
             overlapY == Min(e1.y + e1.height - e2.y, e2.y + e2.height - e1.y)
             moved == IF overlapX > overlapY
                      THEN [e1 EXCEPT !.x = IF e1.x < e2.x THEN e2.x - e1.width
                                                           ELSE e2.x + e2.width,
                                      !.velocity.x = 0]
                      ELSE [e1 EXCEPT !.y = IF e1.y < e2.y THEN e2.y - e1.height
                                                           ELSE e2.y + e2.height,
                                      !.velocity.y = 0]
             first == onCollision(moved, e2)
             second == onCollision(e2, first)
         IN  <<first, second>>

\* resolveCollision(entity1, entity2): the pair <<entity1, entity2>> afterwards
resolveCollision(e1, e2) ==
    IF ~checkCollision(e1, e2) THEN <<e1, e2>>
    ELSE LET overlapX == Min(e1.x + e1.width - e2.x, e2.x + e2.width - e1.x)
             overlapY == Min(e1.y + e1.height - e2.y, e2.y + e2.height - e1.y)
             moved == IF overlapX < overlapY
                      THEN [e1 EXCEPT !.x = IF e1.x < e2.x THEN e2.x - e1.width
                                                           ELSE e2.x + e2.width,
                                      !.velocity.x = 0]
                      ELSE [e1 EXCEPT !.y = IF e1.y < e2.y THEN e2.y - e1.height
                                                           ELSE e2.y + e2.height,
                                      !.velocity.y = 0]
             first == onCollision(moved, e2)
             second == onCollision(e2, first)
         IN  <<first, second>>

-----------------------------------------------------------------------------
(* GameEngine: restart, checkGameState, update                             *)

\* The engine's mutable game data while update() runs: the entities, the
\* GameState, and how many times restart() has been called (history).
World(ents, st, n) == [entities |-> ents, state |-> st, restarts |-> n]

\* the rows of layer 0 that hold a START tile
StartRows(tm) ==
    {y \in 0..(tm.height - 1) :
        \E x \in 0..(tm.width - 1) : getTile(tm, 0, x, y).type = START}

\* The scan "for y / for x / if START { assign; break }": break leaves only the
\* inner loop, so the assignment that stands is the first START tile of the
\* last row that has one.  <<x, y>> in tiles, or <<>> when there is none.
FindStart(tm) ==
    IF StartRows(tm) = {} THEN <<>>
    ELSE LET y == CHOOSE r \in StartRows(tm) : \A q \in StartRows(tm) : q <= r
             x == CHOOSE c \in 0..(tm.width - 1) :
                     /\ getTile(tm, 0, c, y).type = START
                     /\ \A d \in 0..(c - 1) : getTile(tm, 0, d, y).type # START
         IN  <<x, y>>

\* GameEngine.restart()
restart(w, tm, hasMap, p) ==
    LET st == [running |-> TRUE, paused |-> FALSE, score |-> 0, level |-> 1,
               gameOver |-> FALSE, won |-> FALSE]
        s == FindStart(tm)
        reset(e) == [e EXCEPT !.health = PlayerHealth, !.score = 0]
        placed(e) == IF hasMap /\ s # <<>>
                     THEN [e EXCEPT !.x = s[1] * tm.tileSize, !.y = s[2] * tm.tileSize]
                     ELSE e
    IN  [w EXCEPT !.state = st,
                  !.restarts = @ + 1,
                  !.entities = IF p = 0 THEN @
                               ELSE [@ EXCEPT ![p] = placed(reset(@))]]

\* checkGameState() without its "reached the end" branch
checkGameStateNoWin(w, tm, hasMap, p, ks, prev) ==
    IF p = 0 THEN w
    ELSE LET pl == w.entities[p]
             s2 == IF pl.health <= 0
                   THEN [w.state EXCEPT !.gameOver = TRUE, !.won = FALSE]
                   ELSE w.state
             w2 == [w EXCEPT !.state = s2]
         IN  IF s2.gameOver /\ isKeyPressed(ks, prev, "space")
             THEN restart(w2, tm, hasMap, p)
             ELSE w2

\* checkGameState() whose "has died" branch tests health < 0
checkGameStateBelowZero(w, tm, hasMap, p, ks, prev) ==
    IF p = 0 THEN w
    ELSE LET pl == w.entities[p]
             tile == getTile(tm, 0, pl.x \div tm.tileSize, pl.y \div tm.tileSize)
             s1 == IF hasMap /\ tile # NullTile /\ tile.type = END
                   THEN [w.state EXCEPT !.gameOver = TRUE, !.won = TRUE]
                   ELSE w.state
             s2 == IF pl.health < 0
                   THEN [s1 EXCEPT !.gameOver = TRUE, !.won = FALSE]
                   ELSE s1
             w2 == [w EXCEPT !.state = s2]
         IN  IF s2.gameOver /\ isKeyPressed(ks, prev, "space")
             THEN restart(w2, tm, hasMap, p)
             ELSE w2

\* GameEngine.checkGameState()
checkGameState(w, tm, hasMap, p, ks, prev) ==
    IF p = 0 THEN w
    ELSE LET pl == w.entities[p]
             playerTileX == pl.x \div tm.tileSize
             playerTileY == pl.y \div tm.tileSize
             tile == getTile(tm, 0, playerTileX, playerTileY)
             \* "Check if player has reached the end"
             s1 == IF hasMap /\ tile # NullTile /\ tile.type = END
                   THEN [w.state EXCEPT !.gameOver = TRUE, !.won = TRUE]
                   ELSE w.state
             \* "Check if player has died"
             s2 == IF pl.health <= 0
                   THEN [s1 EXCEPT !.gameOver = TRUE, !.won = FALSE]
                   ELSE s1
             w2 == [w EXCEPT !.state = s2]
         IN  \* "Handle restart"
             IF s2.gameOver /\ isKeyPressed(ks, prev, "space")
             THEN restart(w2, tm, hasMap, p)
             ELSE w2

\* update(): "Update player based on input"
applyInput(ents, p, ks) ==
    IF p = 0 THEN ents
    ELSE [ents EXCEPT ![p] = move(@, getDirection(ks))]

\* update(): "Update all entities"
integrate(ents, deltaTime) ==
    [i \in 1..Len(ents) |->
        IF ents[i].active THEN entityUpdate(ents[i], deltaTime) ELSE ents[i]]

\* update(): "Check for collisions" against the tile map
resolveAllTiles(ents, tm, hasMap) ==
    IF ~hasMap THEN ents
    ELSE [i \in 1..Len(ents) |->
            IF ents[i].active /\ ents[i].solid
            THEN resolveTileCollision(ents[i], tm)
            ELSE ents[i]]

\* update(): "Check for entity-entity collisions": for i, for j = i + 1 ...
RECURSIVE resolvePairs(_, _, _)
resolvePairs(ents, i, j) ==
    IF i > Len(ents) THEN ents
    ELSE IF j > Len(ents) THEN resolvePairs(ents, i + 1, i + 2)
    ELSE IF /\ ents[i].active /\ ents[i].solid
            /\ ents[j].active /\ ents[j].solid
            /\ checkCollision(ents[i], ents[j])
         THEN LET r == resolveCollision(ents[i], ents[j])
              IN  resolvePairs([ents EXCEPT ![i] = r[1], ![j] = r[2]], i, j + 1)
         ELSE resolvePairs(ents, i, j + 1)

\* GameEngine.update(deltaTime)
update(w, deltaTime, tm, hasMap, p, ks, prev) ==
    LET moved == integrate(applyInput(w.entities, p, ks), deltaTime)
        onGrid == resolveAllTiles(moved, tm, hasMap)
        paired == resolvePairs(onGrid, 1, 2)
    IN  checkGameState([w EXCEPT !.entities = paired], tm, hasMap, p, ks, prev)

\* the loop with update() given the accumulator instead of frameTime
RECURSIVE stepLoopByAccumulator(_, _, _, _, _, _, _)
stepLoopByAccumulator(w, acc, tm, hasMap, p, ks, prev) ==
    IF acc >= frameTime
    THEN LET w1 == update(w, acc, tm, hasMap, p, ks, prev)
         IN  <<w1>> \o stepLoopByAccumulator(w1, acc - frameTime, tm, hasMap, p, ks, prev)
    ELSE <<>>

\* (mutant) the loop as an if: one update() at most
stepLoopOnce(w, acc, tm, hasMap, p, ks, prev) ==
    IF acc >= frameTime
    THEN <<update(w, frameTime, tm, hasMap, p, ks, prev)>>
    ELSE <<>>

\* while (accumulator >= frameTime) { update(frameTime); accumulator -= frameTime }
\* the worlds the loop passes through, one after each call of update()
RECURSIVE stepLoop(_, _, _, _, _, _, _)
stepLoop(w, acc, tm, hasMap, p, ks, prev) ==
    IF acc >= frameTime
    THEN LET w1 == update(w, frameTime, tm, hasMap, p, ks, prev)
         IN  <<w1>> \o stepLoop(w1, acc - frameTime, tm, hasMap, p, ks, prev)
    ELSE <<>>

-----------------------------------------------------------------------------
(* GameEngine: construction                                                *)

\* new GameEngine(canvas) followed by init(): nothing runs, no key is down,
\* lastTime = performance.now()
EngineConstructed ==
    /\ running = FALSE
    /\ paused = FALSE
    /\ state = [running |-> FALSE, paused |-> FALSE, score |-> 0, level |-> 1,
                gameOver |-> FALSE, won |-> FALSE]
    /\ sinceLast = 0
    /\ accumulator = 0
    /\ entities = <<>>
    /\ player = 0
    /\ mapSet = FALSE
    /\ pending = 0
    /\ keys = {}
    /\ previousKeys = {}


-----------------------------------------------------------------------------
(* Bounds of the sessions                                                  *)

\* the longest time, in ticks, between two readings of the clock
MaxElapsed == 3
\* frame callbacks that may be scheduled at once before start() is held back
MaxPending == 2
\* the hits the player may take in a session (health never increases by itself)
MaxHits == 11
\* the keys that may be held down at once
MaxKeysDown == 1
\* how far, in half pixels, a body may leave the map before frames are held back
MaxStray == 64
\* the maze of a play session is PlayW x PlayH; a fight session uses the
\* mazes PlayW x 3 .. PlayW x PlayH
PlayW == 3
PlayH == 5

-----------------------------------------------------------------------------
(* GameEngine: the operations                                              *)

\* GameEngine.start()
StartAlways ==
    /\ mapSet
    /\ pending < MaxPending
    /\ running' = TRUE
    /\ paused' = FALSE
    /\ state' = [state EXCEPT !.running = TRUE, !.paused = FALSE]
    /\ pending' = pending + 1
    /\ last' = Hist(0, 0, last.armed)
    /\ UNCHANGED <<sinceLast, accumulator, entities, player, mapSet, keys, previousKeys>>
    /\ UNCHANGED genVars
    /\ UNCHANGED twin

Start ==
    /\ mapSet
    /\ pending < MaxPending
    /\ IF running
       THEN UNCHANGED <<running, paused, state, pending>>
       ELSE /\ running' = TRUE
            /\ paused' = FALSE
            /\ state' = [state EXCEPT !.running = TRUE, !.paused = FALSE]
            /\ pending' = pending + 1
    /\ last' = Hist(0, 0, last.armed)
    /\ UNCHANGED <<sinceLast, accumulator, entities, player, mapSet, keys, previousKeys>>
    /\ UNCHANGED genVars
    /\ UNCHANGED twin

\* GameEngine.pause()
Pause ==
    /\ mapSet
    /\ paused' = TRUE
    /\ state' = [state EXCEPT !.paused = TRUE]
    /\ last' = Hist(0, 0, last.armed)
    /\ UNCHANGED <<running, sinceLast, accumulator, entities, player, mapSet,
                   pending, keys, previousKeys>>
    /\ UNCHANGED genVars
    /\ UNCHANGED twin

\* GameEngine.resume()
ResumeBody ==
    /\ mapSet
    /\ IF ~running
       THEN UNCHANGED <<paused, state, sinceLast>>
       ELSE /\ paused' = FALSE
            /\ state' = [state EXCEPT !.paused = FALSE]
            /\ sinceLast' = 0
    /\ last' = Hist(0, 0, last.armed)
    /\ UNCHANGED <<running, accumulator, entities, player, mapSet, pending,
                   keys, previousKeys>>
    /\ UNCHANGED genVars

Resume == ResumeBody /\ UNCHANGED twin

\* GameEngine.stop()
Stop ==
    /\ mapSet
    /\ running' = FALSE
    /\ state' = [state EXCEPT !.running = FALSE]
    /\ last' = Hist(0, 0, last.armed)
    /\ UNCHANGED <<paused, sinceLast, accumulator, entities, player, mapSet,
                   pending, keys, previousKeys>>
    /\ UNCHANGED genVars
    /\ UNCHANGED twin

\* GameEngine.restart(), called from outside the loop
Restart ==
    /\ mapSet
    /\ LET w == restart(World(entities, state, 0), tileMap, mapSet, player) IN
       /\ state' = w.state
       /\ entities' = w.entities
    /\ last' = Hist(0, 1, FALSE)
    /\ UNCHANGED <<running, paused, sinceLast, accumulator, player, mapSet,
                   pending, keys, previousKeys>>
    /\ UNCHANGED genVars
    /\ UNCHANGED twin

\* a body is inside the map or at most MaxStray outside it
Near(e, tm) ==
    /\ e.x >= -MaxStray /\ e.x + e.width <= tm.width * tm.tileSize + MaxStray
    /\ e.y >= -MaxStray /\ e.y + e.height <= tm.height * tm.tileSize + MaxStray

Bounded(w, tm, p) ==
    /\ \A i \in 1..Len(w.entities) : Near(w.entities[i], tm)
    /\ p # 0 => w.entities[p].health >= PlayerHealth - MaxHits * EnemyDamage

\* if (!this.paused): the frame feeds the accumulator and runs physics steps
SimulatingAlways == TRUE

Simulating == ~paused

\* if (!this.running) return: a callback of a stopped loop does nothing and
\* schedules no successor
CancelledNever == FALSE

Cancelled == ~running

\* GameEngine.gameLoop(timestamp): a scheduled frame callback runs
GameLoopBody ==
    /\ pending > 0
    /\ IF Cancelled
       THEN /\ pending' = pending - 1
            /\ last' = Hist(0, 0, last.armed)
            /\ UNCHANGED <<sinceLast, accumulator, entities, state, previousKeys>>
       ELSE LET deltaTime == sinceLast
                prev == keys                     \* inputSystem.update()
                acc == IF Simulating THEN accumulator + deltaTime ELSE accumulator
                start == World(entities, state, 0)
            IN  \E ws \in {IF Simulating
                            THEN stepLoop(start, acc, tileMap, mapSet, player, keys, prev)
                            ELSE <<>>} :
                LET n == Len(ws)
                    w == IF n = 0 THEN start ELSE ws[n]
                IN  /\ Bounded(w, tileMap, player)
                    /\ sinceLast' = 0
                    /\ previousKeys' = prev
                    /\ accumulator' = acc - n * frameTime
                    /\ entities' = w.entities
                    /\ state' = w.state
                    /\ pending' = pending      \* this one ran, the next is scheduled
                    /\ last' = Hist(n, w.restarts,
                                    IF n > 0 THEN FALSE ELSE last.armed)
    /\ UNCHANGED <<running, paused, player, mapSet, keys>>
    /\ UNCHANGED genVars

GameLoop == GameLoopBody /\ UNCHANGED twin

\* GameEngine.update(frameTime), a public method, called from outside the loop
Update ==
    /\ mapSet
    /\ \E w \in {update(World(entities, state, 0), frameTime, tileMap, mapSet,
                        player, keys, previousKeys)} :
         /\ Bounded(w, tileMap, player)
         /\ entities' = w.entities
         /\ state' = w.state
         /\ last' = Hist(1, w.restarts, FALSE)
    /\ UNCHANGED <<running, paused, sinceLast, accumulator, player, mapSet,
                   pending, keys, previousKeys>>
    /\ UNCHANGED genVars
    /\ UNCHANGED twin

\* the clock advances by d ticks, while no more than max ticks have passed
\* since the engine last read it
AdvanceBody(d, max) ==
    /\ mapSet
    /\ sinceLast + d <= max
    /\ sinceLast' = sinceLast + d
    /\ last' = Hist(0, 0, last.armed)
    /\ UNCHANGED <<running, paused, state, accumulator, entities, player, mapSet,
                   pending, keys, previousKeys>>
    /\ UNCHANGED genVars

Advance(d, max) == AdvanceBody(d, max) /\ UNCHANGED twin

\* a display of any rate: time passes tick by tick between two frame callbacks
Tick == Advance(1, MaxElapsed)

\* a display in step with the engine: one frameTime passes between two frames
VSync == Advance(frameTime, frameTime)

\* a keydown event for a key of K that is up (a held key's repeats change nothing)
KeyDown(K) ==
    /\ mapSet
    /\ Cardinality(keys) < MaxKeysDown
    /\ \E k \in K \ keys :
         /\ keys' = handleKeyDown(keys, k)
         /\ last' = Hist(0, 0,
                         IF k = "space" THEN state.gameOver ELSE last.armed)
    /\ UNCHANGED <<running, paused, state, sinceLast, accumulator, entities,
                   player, mapSet, pending, previousKeys>>
    /\ UNCHANGED genVars
    /\ UNCHANGED twin

\* a keyup event for a key of K that is down
KeyUp(K) ==
    /\ mapSet
    /\ \E k \in K \cap keys :
         /\ keys' = handleKeyUp(keys, k)
         /\ last' = Hist(0, 0, IF k = "space" THEN FALSE ELSE last.armed)
    /\ UNCHANGED <<running, paused, state, sinceLast, accumulator, entities,
                   player, mapSet, pending, previousKeys>>
    /\ UNCHANGED genVars
    /\ UNCHANGED twin

-----------------------------------------------------------------------------
(* MazeGame: initGame                                                      *)

PlayerSize == HalfPx(24)

\* "Find start position": startX, startY stay 0 when no tile is START
SpawnPoint(tm) ==
    LET s == FindStart(tm)
    IN  IF s = <<>> THEN <<0, 0>> ELSE <<s[1] * tm.tileSize, s[2] * tm.tileSize>>

\* initGame() after generate(): setTileMap, new Player at the start tile,
\* addEntity, start()
InitGame ==
    /\ genPc = "done"
    /\ ~mapSet
    /\ mapSet' = TRUE
    /\ LET s == SpawnPoint(tileMap) IN
       entities' = Append(entities, Player("player", s[1], s[2], PlayerSize, PlayerSize))
    /\ player' = Len(entities) + 1
    /\ running' = TRUE
    /\ paused' = FALSE
    /\ state' = [state EXCEPT !.running = TRUE, !.paused = FALSE]
    /\ pending' = pending + 1
    /\ last' = Hist(0, 0, FALSE)
    /\ UNCHANGED <<sinceLast, accumulator, keys, previousKeys>>
    /\ UNCHANGED genVars
    /\ UNCHANGED twin

\* A session with an enemy: initGame() as above with one more addEntity before
\* start(): a solid BaseEntity tagged "enemy", as wide as the player and 8 px
\* high, in the bottom quarter of the cell two rows below the spawn point
Enemy(tm) ==
    LET s == SpawnPoint(tm)
        e == BaseEntity("enemy", s[1], s[2] + 3 * tm.tileSize - HalfPx(8),
                        PlayerSize, HalfPx(8))
    IN  [e EXCEPT !.tags = {"enemy"}]

InitFight ==
    /\ genPc = "done"
    /\ ~mapSet
    /\ mapSet' = TRUE
    /\ LET s == SpawnPoint(tileMap) IN
       entities' = entities \o <<Player("player", s[1], s[2], PlayerSize, PlayerSize),
                                 Enemy(tileMap)>>
    /\ player' = Len(entities) + 1
    /\ running' = TRUE
    /\ paused' = FALSE
    /\ state' = [state EXCEPT !.running = TRUE, !.paused = FALSE]
    /\ pending' = pending + 1
    /\ last' = Hist(0, 0, FALSE)
    /\ UNCHANGED <<sinceLast, accumulator, keys, previousKeys>>
    /\ UNCHANGED genVars
    /\ UNCHANGED twin

-----------------------------------------------------------------------------
(* Sessions                                                                *)

InitSession(dims) ==
    /\ \E d \in dims : GenerateBegin(d[1], d[2])
    /\ EngineConstructed
    /\ last = NoHistory
    /\ twin = NoTwin

\* Play: one maze, the player alone, right and down, frames in step
RightDown == {"arrowright", "arrowdown"}

NextPlay ==
    \/ Carve \/ Backtrack \/ SelectEnd \/ InitGame
    \/ KeyDown(RightDown) \/ KeyUp(RightDown) \/ VSync \/ GameLoop

SpecPlay == InitSession({<<PlayW, PlayH>>}) /\ [][NextPlay]_vars

\* Fight: the mazes PlayW x 3 .. PlayW x PlayH, the player and an enemy, up and
\* down, frames in step, restart()
UpDown == {"arrowup", "arrowdown"}

NextFight ==
    \/ Carve \/ Backtrack \/ SelectEnd \/ InitFight
    \/ KeyDown(UpDown) \/ KeyUp(UpDown) \/ VSync \/ GameLoop \/ Restart

SpecFight == InitSession({<<PlayW, h>> : h \in 3..PlayH}) /\ [][NextFight]_vars

\* Control: one maze, the player alone, down and the restart key, frames and
\* every operation of the loop
DownSpace == {"arrowdown", "space"}

NextCtl ==
    \/ Carve \/ Backtrack \/ SelectEnd \/ InitGame
    \/ KeyDown(DownSpace) \/ KeyUp(DownSpace) \/ Tick \/ GameLoop
    \/ Start \/ Pause \/ Resume \/ Stop \/ Restart

SpecCtl == InitSession({<<PlayW, PlayH>>}) /\ [][NextCtl]_vars

\* Api: one maze, the player alone, down and the restart key, frames in step,
\* pause, resume, stop, start, and update() called from outside
NextApi ==
    \/ Carve \/ Backtrack \/ SelectEnd \/ InitGame
    \/ KeyDown(DownSpace) \/ KeyUp(DownSpace) \/ VSync \/ GameLoop
    \/ Start \/ Pause \/ Resume \/ Stop \/ Update

SpecApi == InitSession({<<PlayW, PlayH>>}) /\ [][NextApi]_vars

\* Idle: one maze, the player alone, the key down, a display of any rate,
\* pause, resume, stop and start; twin.idle counts the ticks, of those passed
\* since the engine last read the clock (sinceLast), that passed while the
\* loop was paused or stopped
InitIdle ==
    /\ GenerateBegin(PlayW, PlayH)
    /\ EngineConstructed
    /\ last = NoHistory
    /\ twin = [forked |-> FALSE, idle |-> 0]

TickIdle ==
    /\ AdvanceBody(1, MaxElapsed)
    /\ twin' = [twin EXCEPT !.idle = IF paused \/ ~running THEN @ + 1 ELSE @]

\* lastTime = timestamp, in every callback of a running loop
GameLoopIdle ==
    /\ GameLoopBody
    /\ twin' = [twin EXCEPT !.idle = IF running THEN 0 ELSE @]

\* lastTime = performance.now(), in resume() of a running loop
ResumeIdle ==
    /\ ResumeBody
    /\ twin' = [twin EXCEPT !.idle = IF running THEN 0 ELSE @]

NextIdle ==
    \/ Carve \/ Backtrack \/ SelectEnd \/ InitGame
    \/ KeyDown({"arrowdown"}) \/ KeyUp({"arrowdown"}) \/ TickIdle \/ GameLoopIdle
    \/ Start \/ Pause \/ ResumeIdle \/ Stop

SpecIdle == InitIdle /\ [][NextIdle]_vars

-----------------------------------------------------------------------------
(* Two runs of one game                                                    *)

\* a compared run makes at most MaxDetSteps physics steps
MaxDetSteps == 4
\* and is delivered at most MaxDetTime ticks by its frame callbacks
MaxDetTime == 8

DetKeys == {"arrowup", "arrowright"}

\* the sets of keys that may be down when a frame callback of the second run runs
DetKeySets == {ks \in SUBSET DetKeys : Cardinality(ks) <= MaxKeysDown}

\* the Direction of steps done+1 .. done+n is dir wherever the script has one
Follows(script, done, n, dir) ==
    \A i \in (done + 1)..(done + n) : i <= Len(script) => script[i] = dir

\* the script, with dir for those of steps done+1 .. done+n it did not have
Extend(script, done, n, dir) ==
    script \o [i \in 1..(done + n - Len(script)) |-> dir]

\* A second engine is built as initGame() built the first: the same tile map,
\* the same entities, the same GameState, its clock just read.  It is driven
\* by its own frame callbacks (FrameB) and its own clock (TickB), and, the two
\* engines sharing nothing, it is run after the first has been delivered
\* MaxDetTime ticks.  script is the Direction of each physics step, fixed by
\* whichever run makes the step first; trajA and trajB are the entities after
\* each step of the two runs; framesA and framesB count the frame callbacks.
Fork ==
    /\ mapSet
    /\ ~twin.forked
    /\ twin' = [forked |-> TRUE, entities |-> entities, state |-> state,
                accumulator |-> accumulator, sinceLast |-> 0,
                timeA |-> 0, timeB |-> 0, script |-> <<>>,
                trajA |-> <<>>, trajB |-> <<>>, framesA |-> 0, framesB |-> 0]
    /\ last' = Hist(0, 0, last.armed)
    /\ UNCHANGED engVars
    /\ UNCHANGED genVars

\* the first run: the engine itself
TickA ==
    /\ twin.forked
    /\ twin.timeA + sinceLast < MaxDetTime
    /\ Tick

KeyDownA == twin.forked /\ twin.timeA < MaxDetTime /\ KeyDown(DetKeys)

KeyUpA == twin.forked /\ twin.timeA < MaxDetTime /\ KeyUp(DetKeys)

\* gameLoop() of the first run, after some time has passed
FrameA ==
    /\ twin.forked
    /\ sinceLast > 0
    /\ LET ws == stepLoop(World(entities, state, 0), accumulator + sinceLast,
                          tileMap, mapSet, player, keys, keys)
           n == Len(ws)
           done == Len(twin.trajA)
           dir == getDirection(keys)
       IN  /\ done + n <= MaxDetSteps
           /\ Follows(twin.script, done, n, dir)
           /\ twin' = [twin EXCEPT !.timeA = @ + sinceLast,
                                   !.script = Extend(@, done, n, dir),
                                   !.trajA = @ \o [i \in 1..n |-> ws[i].entities],
                                   !.framesA = @ + 1]
    /\ GameLoopBody

\* the clock of the second run
TickB ==
    /\ twin.forked
    /\ twin.timeA = MaxDetTime
    /\ twin.sinceLast < MaxElapsed
    /\ twin.timeB + twin.sinceLast < MaxDetTime
    /\ twin' = [twin EXCEPT !.sinceLast = @ + 1]
    /\ last' = Hist(0, 0, last.armed)
    /\ UNCHANGED engVars
    /\ UNCHANGED genVars

\* gameLoop() of the second run (running, not paused), with the keys ks down
FrameB ==
    /\ twin.forked
    /\ twin.sinceLast > 0
    /\ \E ks \in DetKeySets :
         LET deltaTime == twin.sinceLast
             acc == twin.accumulator + deltaTime
             start == World(twin.entities, twin.state, 0)
             ws == stepLoop(start, acc, tileMap, mapSet, player, ks, ks)
             n == Len(ws)
             w == IF n = 0 THEN start ELSE ws[n]
             done == Len(twin.trajB)
             dir == getDirection(ks)
         IN  /\ done + n <= MaxDetSteps
             /\ Follows(twin.script, done, n, dir)
             /\ Bounded(w, tileMap, player)
             /\ twin' = [twin EXCEPT !.sinceLast = 0,
                                     !.accumulator = acc - n * frameTime,
                                     !.entities = w.entities,
                                     !.state = w.state,
                                     !.timeB = @ + deltaTime,
                                     !.script = Extend(@, done, n, dir),
                                     !.trajB = @ \o [i \in 1..n |-> ws[i].entities],
                                     !.framesB = @ + 1]
    /\ last' = Hist(0, 0, last.armed)
    /\ UNCHANGED engVars
    /\ UNCHANGED genVars

NextDet ==
    \/ Carve \/ Backtrack \/ SelectEnd \/ InitGame \/ Fork
    \/ KeyDownA \/ KeyUpA \/ TickA \/ FrameA \/ TickB \/ FrameB

SpecDet == InitSession({<<PlayW, PlayH>>}) /\ [][NextDet]_vars

-----------------------------------------------------------------------------
(* Maze generation alone                                                   *)

InitGen ==
    /\ \E w \in 3..GenMaxDim, h \in 3..GenMaxDim : GenerateBegin(w, h)
    /\ EngineConstructed
    /\ last = NoHistory
    /\ twin = NoTwin

NextGen == Carve \/ Backtrack \/ SelectEnd

SpecGen == InitGen /\ [][NextGen]_vars

\* generate() is a loop that runs on: an iteration that can be made is made
SpecGenFair == SpecGen /\ WF_vars(NextGen)


-----------------------------------------------------------------------------
(* The collision system alone                                              *)

\* a bench grid is BenchDim x BenchDim tiles of BenchTile pixels, with at most
\* BenchWalls solid tiles; a bench body is BenchBody pixels wide and high and
\* stands on the half-pixel grid no more than BenchMargin pixels outside it
BenchDim == 3
BenchTile == 4
BenchWalls == 2
BenchBody == 3
BenchMargin == 1

\* a one-layer map with WALL tiles at the cells of walls: createLayer, then
\* setTile(0, x, y, WALL) for each of them
Walled(w, h, ts, walls) ==
    LET tm == createLayer(NewTileMap(w, h, ts), "bench")
    IN  [tm EXCEPT !.layers[1].tiles =
            [y \in 0..(h - 1) |-> [x \in 0..(w - 1) |->
                IF <<x, y>> \in walls THEN WallTile ELSE EmptyTile]]]

BenchCells == (0..(BenchDim - 1)) \X (0..(BenchDim - 1))

BenchGrids ==
    {Walled(BenchDim, BenchDim, HalfPx(BenchTile), walls) :
        walls \in {ws \in SUBSET BenchCells : Cardinality(ws) <= BenchWalls}}

BenchCoords == (-HalfPx(BenchMargin))..(HalfPx(BenchDim * BenchTile + BenchMargin - BenchBody))

\* an engine that holds the map tm and the entities ents and runs nothing
\* by itself
Bench(tm, ents) ==
    /\ tileMap = tm
    /\ stack = <<>>
    /\ visited = {}
    /\ genPc = "done"
    /\ running = FALSE
    /\ paused = FALSE
    /\ state = [running |-> FALSE, paused |-> FALSE, score |-> 0, level |-> 1,
                gameOver |-> FALSE, won |-> FALSE]
    /\ sinceLast = 0
    /\ accumulator = 0
    /\ entities = ents
    /\ player = 0
    /\ mapSet = TRUE
    /\ pending = 0
    /\ keys = {}
    /\ previousKeys = {}
    /\ last = NoHistory
    /\ twin = [forked |-> FALSE, applied |-> 0, before |-> ents]

\* a moving solid body anywhere on any bench grid
InitTiles ==
    \E tm \in BenchGrids, x \in BenchCoords, y \in BenchCoords :
        Bench(tm, <<[BaseEntity("body", x, y, HalfPx(BenchBody), HalfPx(BenchBody))
                        EXCEPT !.velocity = [x |-> PlayerSpeed, y |-> PlayerSpeed]]>>)

\* collisionSystem.resolveTileCollision(entity, tileMap), called up to twice
ResolveTiles ==
    /\ twin.applied < 2
    /\ entities' = <<resolveTileCollision(entities[1], tileMap)>>
    /\ twin' = [twin EXCEPT !.applied = @ + 1, !.before = entities]
    /\ last' = Hist(0, 0, FALSE)
    /\ UNCHANGED <<running, paused, state, sinceLast, accumulator, player, mapSet,
                   pending, keys, previousKeys>>
    /\ UNCHANGED genVars

SpecTiles == InitTiles /\ [][ResolveTiles]_vars

\* Two bodies: the second at (PairSpan/2, PairSpan/2) pixels, the first
\* anywhere on the half-pixel grid of 0..PairSpan pixels, each 1..2*PairSize
\* half pixels wide and high; both move; the first is a Player, the second
\* may be tagged "enemy"
PairSpan == 4
PairSize == 2

PairSizes == 1..HalfPx(PairSize)

InitPair ==
    \E x \in 0..HalfPx(PairSpan), y \in 0..HalfPx(PairSpan),
       w1 \in PairSizes, h1 \in PairSizes, w2 \in PairSizes, h2 \in PairSizes,
       tags \in {{}, {"enemy"}} :
        Bench(createLayer(NewTileMap(1, 1, tileSize), "bench"),
              <<[Player("a", x, y, w1, h1)
                    EXCEPT !.velocity = [x |-> PlayerSpeed, y |-> -PlayerSpeed]],
                [BaseEntity("b", PairSpan, PairSpan, w2, h2)
                    EXCEPT !.velocity = [x |-> -PlayerSpeed, y |-> PlayerSpeed],
                           !.tags = tags]>>)

\* collisionSystem.resolveCollision(entity1, entity2), called once
ResolvePair ==
    /\ twin.applied < 1
    /\ LET r == resolveCollision(entities[1], entities[2])
       IN  entities' = <<r[1], r[2]>>
    /\ twin' = [twin EXCEPT !.applied = @ + 1, !.before = entities]
    /\ last' = Hist(0, 0, FALSE)
    /\ UNCHANGED <<running, paused, state, sinceLast, accumulator, player, mapSet,
                   pending, keys, previousKeys>>
    /\ UNCHANGED genVars

SpecPair == InitPair /\ [][ResolvePair]_vars

\* A player against a wall: a BenchDim x BenchDim map of the game's tiles with
\* at most BenchWalls solid tiles, the player (of the game's size, of speed
\* WallSpeed or the game's) resting on the half-pixel grid clear of every solid
\* tile, its right edge on the left edge of a solid tile of its row, and the
\* key "arrowright" down.  With WallSpeed the body moves 100/60 px in a step,
\* which the half-pixel grid holds as 1.5 px: the range of tiles scanned and
\* the comparison of the two overlaps, of which the vertical one is a multiple
\* of half a pixel here, come out the same for both.
WallSpeed == 100

WallGrids ==
    {Walled(BenchDim, BenchDim, tileSize, walls) :
        walls \in {ws \in SUBSET BenchCells : Cardinality(ws) <= BenchWalls}}

\* the tile to the right of the box of e, in the row of its top-left corner
CellAtRight(e, tm) == <<(e.x + e.width) \div tm.tileSize, e.y \div tm.tileSize>>

\* the right edge of e lies on the left edge of a solid tile of its row
AgainstWall(e, tm) ==
    /\ (e.x + e.width) % tm.tileSize = 0
    /\ isSolid(tm, CellAtRight(e, tm)[1], CellAtRight(e, tm)[2])

InitWall ==
    \E tm \in WallGrids, c \in 1..(BenchDim - 1),
       y \in 0..(BenchDim * tileSize - PlayerSize), v \in {WallSpeed, PlayerSpeed} :
        LET e == [Player("player", c * tileSize - PlayerSize, y, PlayerSize, PlayerSize)
                     EXCEPT !.speed = v]
        IN  /\ AgainstWall(e, tm)
            /\ checkTileCollision(e, tm) = <<>>
            /\ Bench(tm, <<e>>)

\* the map is set, the body is the engine's player, the key is down, and
\* update(frameTime) is called once
StepRight ==
    /\ twin.applied < 1
    /\ LET w == update(World(entities, state, 0), frameTime, tileMap, TRUE, 1,
                       {"arrowright"}, {"arrowright"})
       IN  /\ entities' = w.entities
           /\ state' = w.state
    /\ player' = 1
    /\ keys' = {"arrowright"}
    /\ previousKeys' = {"arrowright"}
    /\ twin' = [twin EXCEPT !.applied = @ + 1, !.before = entities]
    /\ last' = Hist(1, 0, FALSE)
    /\ UNCHANGED <<running, paused, sinceLast, accumulator, mapSet, pending>>
    /\ UNCHANGED genVars

SpecWall == InitWall /\ [][StepRight]_vars

\* The player and another body: the other at (PairSpan/2, PairSpan/2) pixels,
\* the player anywhere on the half-pixel grid of 0..PairSpan pixels, both
\* PairSize pixels wide and high; the other body is tagged "enemy",
\* "collectible", both or neither, is solid or not, and is the first or the
\* second argument of resolveCollision
HitTags == SUBSET {"enemy", "collectible"}

InitHit ==
    \E x \in 0..HalfPx(PairSpan), y \in 0..HalfPx(PairSpan),
       tags \in HitTags, solid \in BOOLEAN, playerFirst \in BOOLEAN :
        LET p == [Player("player", x, y, HalfPx(PairSize), HalfPx(PairSize))
                     EXCEPT !.velocity = [x |-> PlayerSpeed, y |-> 0]]
            o == [BaseEntity("other", PairSpan, PairSpan, HalfPx(PairSize), HalfPx(PairSize))
                     EXCEPT !.tags = tags, !.solid = solid]
        IN  Bench(createLayer(NewTileMap(1, 1, tileSize), "bench"),
                  IF playerFirst THEN <<p, o>> ELSE <<o, p>>)

SpecHit == InitHit /\ [][ResolvePair]_vars

-----------------------------------------------------------------------------
(* The tile map alone                                                      *)

\* Maps of 1..GridDim columns and rows with 0..GridLayers layers, as the
\* constructor and createLayer leave them; then GridOps calls of getTile and
\* setTile with every index from one below the range to one above it
GridDim == 2
GridLayers == 2
GridOps == 2

RECURSIVE Layered(_, _)
Layered(tm, n) ==
    IF n = 0 THEN tm ELSE Layered(createLayer(tm, "layer"), n - 1)

InitGrid ==
    \E w \in 1..GridDim, h \in 1..GridDim, n \in 0..GridLayers :
        Bench(Layered(NewTileMap(w, h, tileSize), n), <<>>)

\* the call made last: its name, its arguments, the map it was made on and
\* what it returned
Call(name, layerIndex, x, y, got) ==
    [forked |-> FALSE, applied |-> twin.applied + 1,
     before |-> [name |-> name, layerIndex |-> layerIndex, x |-> x, y |-> y,
                 map |-> tileMap, got |-> got]]

GridUnchanged ==
    /\ last' = Hist(0, 0, FALSE)
    /\ UNCHANGED <<running, paused, state, sinceLast, accumulator, entities, player,
                   mapSet, pending, keys, previousKeys>>
    /\ UNCHANGED <<stack, visited, genPc>>

\* tileMap.getTile(layerIndex, x, y)
GetTile ==
    /\ twin.applied < GridOps
    /\ \E layerIndex \in (-1)..Len(tileMap.layers),
          x \in (-1)..tileMap.width, y \in (-1)..tileMap.height :
         twin' = Call("getTile", layerIndex, x, y, getTile(tileMap, layerIndex, x, y))
    /\ tileMap' = tileMap
    /\ GridUnchanged

\* tileMap.setTile(layerIndex, x, y, tile)
SetTile ==
    /\ twin.applied < GridOps
    /\ \E layerIndex \in (-1)..Len(tileMap.layers),
          x \in (-1)..tileMap.width, y \in (-1)..tileMap.height,
          tile \in {WallTile} :
         /\ tileMap' = setTile(tileMap, layerIndex, x, y, tile)
         /\ twin' = Call("setTile", layerIndex, x, y, tile)
    /\ GridUnchanged

SpecGrid == InitGrid /\ [][GetTile \/ SetTile]_vars

\* Layers: maps of 1..GridDim columns and rows, at first without a layer, on
\* which createLayer is called up to MaxLayers times with ids of LayerIds
MaxLayers == 3

LayerIds == {"maze", "items", "overlay"}

InitLayers ==
    \E w \in 1..GridDim, h \in 1..GridDim :
        Bench(NewTileMap(w, h, tileSize), <<>>)

\* tileMap.createLayer(id)
CreateLayer ==
    /\ Len(tileMap.layers) < MaxLayers
    /\ \E id \in LayerIds :
         /\ tileMap' = createLayer(tileMap, id)
         /\ twin' = Call("createLayer", Len(tileMap.layers), 0, 0, id)
    /\ GridUnchanged

SpecLayers == InitLayers /\ [][CreateLayer]_vars

\* Shapes: new TileMap(width, height, tileSize) with every width and height
\* from -1 to GridDim and a negative, a zero and the generator's tile size,
\* then createLayer as above
ShapeSizes == {HalfPx(-1), 0, tileSize}

InitShapes ==
    \E w \in (-1)..GridDim, h \in (-1)..GridDim, ts \in ShapeSizes :
        Bench(NewTileMap(w, h, ts), <<>>)

SpecShapes == InitShapes /\ [][CreateLayer]_vars

-----------------------------------------------------------------------------
(* Properties of the generated maze                                        *)

Cells(tm) == (0..(tm.width - 1)) \X (0..(tm.height - 1))

\* the cells of layer 0 that are Path, Start or End
Carved(tm) == {c \in Cells(tm) : getTile(tm, 0, c[1], c[2]).type \in {PATH, START, END}}

\* the cells of the odd sub-lattice, and the cells between two of them
OnLattice(c) == c[1] % 2 = 1 /\ c[2] % 2 = 1
LatticeCarved(tm) == {c \in Carved(tm) : OnLattice(c)}
BetweenCarved(tm) == {c \in Carved(tm) : ~OnLattice(c)}

Adjacent4(c) == {<<c[1] + 1, c[2]>>, <<c[1] - 1, c[2]>>,
                 <<c[1], c[2] + 1>>, <<c[1], c[2] - 1>>}

\* the cells reachable from the cells of seen by 4-connected steps through
\* cells that are not solid
RECURSIVE ReachFrom(_, _)
ReachFrom(tm, seen) ==
    LET more == {c \in Cells(tm) :
                    /\ c \notin seen
                    /\ ~isSolid(tm, c[1], c[2])
                    /\ Adjacent4(c) \cap seen # {}}
    IN  IF more = {} THEN seen ELSE ReachFrom(tm, seen \cup more)

\* C9: in every generated maze, every Path, Start or End cell is reachable from
\* the start cell (1,1) by a 4-connected path through non-solid cells.
C9_Connected ==
    genPc = "done" =>
        Carved(tileMap) \subseteq ReachFrom(tileMap, {<<startX, startY>>})

\* a finished maze with a 3 x 3 lattice, all nine lattice cells carved
C9_Witness ==
    /\ genPc = "done"
    /\ tileMap.width >= 7 /\ tileMap.height >= 7
    /\ Cardinality(LatticeCarved(tileMap)) = 9
    /\ getTile(tileMap, 0, 5, 5).type = END

\* the two lattice cells a between-cell joins
Joined(c) == IF c[1] % 2 = 0 THEN {<<c[1] - 1, c[2]>>, <<c[1] + 1, c[2]>>}
                             ELSE {<<c[1], c[2] - 1>>, <<c[1], c[2] + 1>>}

\* C10: the carved cells form a tree: every carved between-cell has exactly one
\* odd coordinate and joins two carved lattice cells, and the number of carved
\* between-cells (wall removals) is the number of carved lattice cells minus 1
\* (with C9, no cycle and one path between any two carved cells).  It holds
\* after every iteration of the carving loop and in the finished maze.
C10_Tree ==
    /\ \A c \in BetweenCarved(tileMap) :
          /\ (c[1] % 2) + (c[2] % 2) = 1
          /\ Joined(c) \subseteq LatticeCarved(tileMap)
    /\ Cardinality(BetweenCarved(tileMap)) = Cardinality(LatticeCarved(tileMap)) - 1

\* a finished maze in which eight walls were removed between nine cells
C10_Witness ==
    /\ genPc = "done"
    /\ Cardinality(BetweenCarved(tileMap)) = 8
    /\ Cardinality(LatticeCarved(tileMap)) = 9

\* the odd-lattice cells of layer 0 that are Path
LatticePath(tm) == {c \in Cells(tm) : OnLattice(c) /\ getTile(tm, 0, c[1], c[2]).type = PATH}

\* the cells of layer 0 that are End
EndCells(tm) == {c \in Cells(tm) : getTile(tm, 0, c[1], c[2]).type = END}

\* |x - 1| + |y - 1|
FromStart(c) == Abs(c[1] - startX) + Abs(c[2] - startY)

\* c comes before d in row-major order, or is d
RowMajorLeq(c, d) == c[2] < d[2] \/ (c[2] = d[2] /\ c[1] <= d[1])

\* C11: the cell that the end of generate() makes End was an odd-lattice Path
\* cell, no odd-lattice Path cell is farther (Manhattan) from Start, and no
\* odd-lattice Path cell as far comes before it in row-major order.
C11_EndIsFarthestPath ==
    [][genPc = "end" /\ genPc' = "done" =>
          \E e \in EndCells(tileMap') :
              /\ EndCells(tileMap') = {e}
              /\ e \in LatticePath(tileMap)
              /\ \A c \in LatticePath(tileMap) :
                    /\ FromStart(c) <= FromStart(e)
                    /\ FromStart(c) = FromStart(e) => RowMajorLeq(e, c)]_vars

\* ceil(n / 2)
HalfUp(n) == (n + 1) \div 2

\* no cell of the last interior column (row) of an even width (height) is carved
EvenEdgeUncarved(tm) ==
    /\ tm.width % 2 = 0 => \A c \in Carved(tm) : c[1] # tm.width - 2
    /\ tm.height % 2 = 0 => \A c \in Carved(tm) : c[2] # tm.height - 2

\* C12: for every width and height, odd or even, and every choice of
\* neighbours, the carving loop ends with the stack empty and generate()
\* completes; a cell is pushed only when it is not yet visited, so at most
\* ceil(width/2) * ceil(height/2) cells are visited; and the extra interior
\* row or column of an even dimension stays uncarved.
C12_GenerationTerminates ==
    /\ <>(genPc = "done" /\ stack = <<>>)
    /\ [](/\ Cardinality(visited) <= HalfUp(tileMap.width) * HalfUp(tileMap.height)
          /\ EvenEdgeUncarved(tileMap))
    /\ [][Len(stack') > Len(stack) =>
             /\ OnLattice(<<stack'[Len(stack')].x, stack'[Len(stack')].y>>)
             /\ <<stack'[Len(stack')].x, stack'[Len(stack')].y>> \notin visited]_vars

\* a finished maze of even width and odd height, six lattice cells visited
C12_Witness ==
    /\ genPc = "done" /\ stack = <<>>
    /\ tileMap.width = 6 /\ tileMap.height = 7
    /\ Cardinality(visited) = 6
    /\ EvenEdgeUncarved(tileMap)

\* the types of tile the maze layer holds
TypesOf(tm) == {getTile(tm, 0, c[1], c[2]).type : c \in Cells(tm)}

\* C24: at every iteration of generate() and after it, a tile of the maze
\* layer is solid iff its type is WALL.
C24_SolidIffWall ==
    \A c \in Cells(tileMap) :
        getTile(tileMap, 0, c[1], c[2]).solid <=> getTile(tileMap, 0, c[1], c[2]).type = WALL

\* a finished maze with walls, paths, its start and its end
C24_Witness ==
    /\ genPc = "done"
    /\ TypesOf(tileMap) = {WALL, PATH, START, END}

\* the odd-lattice cells inside the border
Interior(tm) ==
    {c \in Cells(tm) : /\ OnLattice(c)
                       /\ c[1] > 0 /\ c[1] < tm.width - 1
                       /\ c[2] > 0 /\ c[2] < tm.height - 1}

\* stack entries a and b are two cells apart on one axis, and the cell
\* between them is not solid
Linked(tm, a, b) ==
    /\ \/ a.x = b.x /\ Abs(a.y - b.y) = 2
       \/ a.y = b.y /\ Abs(a.x - b.x) = 2
    /\ ~getTile(tm, 0, (a.x + b.x) \div 2, (a.y + b.y) \div 2).solid

\* C27: at every iteration boundary of the carving loop, an interior
\* odd-lattice cell is visited iff its tile is not solid (START or PATH);
\* every cell on the stack is visited and not solid; consecutive stack entries
\* are two cells apart on one axis and joined by a carved cell.
C27_VisitedIffCarved ==
    genPc \in {"carve", "end"} =>
        /\ visited \subseteq Interior(tileMap)
        /\ \A c \in Interior(tileMap) :
             /\ c \in visited <=> ~getTile(tileMap, 0, c[1], c[2]).solid
             /\ c \in visited <=> getTile(tileMap, 0, c[1], c[2]).type \in {START, PATH}
        /\ \A i \in 1..Len(stack) :
             /\ <<stack[i].x, stack[i].y>> \in visited
             /\ ~getTile(tileMap, 0, stack[i].x, stack[i].y).solid
        /\ \A i \in 1..(Len(stack) - 1) : Linked(tileMap, stack[i], stack[i + 1])

\* in the middle of the loop: three cells on the stack and two more visited
\* that have been popped
C27_Witness ==
    /\ genPc = "carve"
    /\ Len(stack) = 3
    /\ Cardinality(visited) = 5

\* the cells of the maze layer that hold a tile of type t
CellsOfType(tm, t) == {c \in Cells(tm) : getTile(tm, 0, c[1], c[2]).type = t}

\* C31: the map generate() returns has exactly one START cell, at (1, 1), and
\* exactly one END cell, somewhere else.
C31_OneStartOneEnd ==
    genPc = "done" =>
        /\ CellsOfType(tileMap, START) = {<<startX, startY>>}
        /\ Cardinality(CellsOfType(tileMap, END)) = 1
        /\ <<startX, startY>> \notin CellsOfType(tileMap, END)

\* C32: for odd width and height of 5 or more, whatever neighbours the carving
\* loop picks, every interior odd-lattice cell is carved and the END cell is
\* (width - 2, height - 2); so any two runs of generate() for one size, however
\* their choices differ, put END on the same cell.
C32_EndIndependentOfChoices ==
    /\ genPc = "done"
    /\ tileMap.width % 2 = 1 /\ tileMap.width >= 5
    /\ tileMap.height % 2 = 1 /\ tileMap.height >= 5
    => /\ Interior(tileMap) \subseteq Carved(tileMap)
       /\ CellsOfType(tileMap, END) = {<<tileMap.width - 2, tileMap.height - 2>>}

\* a finished 7 x 5 maze of a run that went down first: the cell to the right
\* of the start is still a wall
C32_Witness ==
    /\ genPc = "done"
    /\ tileMap.width = 7
    /\ tileMap.height = 5
    /\ getTile(tileMap, 0, 2, 1).type = WALL
    /\ getTile(tileMap, 0, 5, 3).type = END

\* the cells of the outer border
Border(tm) ==
    {c \in Cells(tm) : \/ c[1] = 0 \/ c[1] = tm.width - 1
                       \/ c[2] = 0 \/ c[2] = tm.height - 1}

\* C34: every cell of the outer border is a solid WALL at every iteration of
\* generate() and in the map it returns: carving and the end selection write
\* only cells strictly inside the border.
C34_BorderStaysWall ==
    /\ \A c \in Border(tileMap) : getTile(tileMap, 0, c[1], c[2]) = WallTile
    /\ (Carved(tileMap) \cup visited) \cap Border(tileMap) = {}

\* a finished 6 x 6 maze: the carving reached column 3 and row 3, two cells
\* from the border column 5 and row 5
C34_Witness ==
    /\ genPc = "done"
    /\ tileMap.width = 6
    /\ tileMap.height = 6
    /\ getTile(tileMap, 0, 3, 3).type = END
    /\ getTile(tileMap, 0, 5, 3) = WallTile

-----------------------------------------------------------------------------
(* Properties of the physics step                                          *)

\* where the bodies are and how they move
Motion(ents) == [i \in 1..Len(ents) |-> <<ents[i].x, ents[i].y, ents[i].velocity>>]

\* the box of body e and the world rectangle of cell c share positive area
OverlapsCell(e, tm, c) ==
    /\ e.x < (c[1] + 1) * tm.tileSize
    /\ e.x + e.width > c[1] * tm.tileSize
    /\ e.y < (c[2] + 1) * tm.tileSize
    /\ e.y + e.height > c[2] * tm.tileSize

\* the solid cells (of any layer) the box of e shares positive area with
SolidUnder(e, tm) == {c \in Cells(tm) : isSolid(tm, c[1], c[2]) /\ OverlapsCell(e, tm, c)}

\* C1: at the end of a frame's physics steps no active solid body shares
\* positive area with a solid cell of any layer.
C1_NoOverlapAfterStep ==
    last.steps > 0 =>
        \A i \in 1..Len(entities) :
            entities[i].active /\ entities[i].solid => SolidUnder(entities[i], tileMap) = {}


\* C13: when resolveTileCollision has been applied to a solid body once,
\* applying it again at once leaves the body's position and velocity as they
\* were, no colliding tile being found.
C13_ResolveTwice ==
    twin.applied = 2 =>
        /\ Motion(entities) = Motion(twin.before)
        /\ checkTileCollision(twin.before[1], tileMap) = <<>>

\* the overlap depths of bodies a and b on X and on Y
DepthX(a, b) == Min(a.x + a.width - b.x, b.x + b.width - a.x)
DepthY(a, b) == Min(a.y + a.height - b.y, b.y + b.height - a.y)

\* resolveCollision was applied to two overlapping solid bodies
PairResolved ==
    /\ twin.applied = 1 /\ Len(twin.before) = 2
    /\ checkCollision(twin.before[1], twin.before[2])

\* body a as it is now was moved along X to the nearer edge of b and stopped
\* on X, its y and velocity.y being those of body a0
PushedAlongX(a0, a, b) ==
    /\ a.x = IF a0.x < b.x THEN b.x - a0.width ELSE b.x + b.width
    /\ a.velocity.x = 0
    /\ a.y = a0.y
    /\ a.velocity.y = a0.velocity.y

\* C14: when the two bodies overlapped with X depth strictly less than Y depth,
\* resolveCollision moved the first along X and zeroed its X velocity, left its
\* y and Y velocity and the second body's position and velocity as they were,
\* and the two no longer overlap.
C14_SmallerAxisX ==
    PairResolved /\ DepthX(twin.before[1], twin.before[2])
                        < DepthY(twin.before[1], twin.before[2]) =>
        /\ PushedAlongX(twin.before[1], entities[1], entities[2])
        /\ entities[1].x # twin.before[1].x
        /\ Motion(<<entities[2]>>) = Motion(<<twin.before[2]>>)
        /\ ~checkCollision(entities[1], entities[2])

\* two bodies of different sizes that overlapped more deeply on Y than on X,
\* the first reaching over the second's left edge, have been resolved
C14_Witness ==
    /\ PairResolved
    /\ DepthX(twin.before[1], twin.before[2]) < DepthY(twin.before[1], twin.before[2])
    /\ twin.before[1].width # twin.before[2].width
    /\ twin.before[1].x < twin.before[2].x
    /\ entities[1].x + entities[1].width = entities[2].x

\* C15: when the two bodies overlapped with exactly equal depths on X and Y,
\* resolveCollision moved the first along X to the nearer edge of the second
\* and zeroed its X velocity, leaving its y and Y velocity as they were.
C15_TieIsHorizontal ==
    PairResolved /\ DepthX(twin.before[1], twin.before[2])
                        = DepthY(twin.before[1], twin.before[2]) =>
        PushedAlongX(twin.before[1], entities[1], entities[2])

\* the player was against a wall and one step to the right has been made
WallStepped ==
    /\ twin.applied = 1 /\ Len(twin.before) = 1
    /\ twin.before[1].isPlayer
    /\ AgainstWall(twin.before[1], tileMap)

\* the player is where it was, stopped on X
BlockedByWall ==
    /\ entities[1].x = twin.before[1].x
    /\ entities[1].velocity.x = 0
    /\ entities[1].y = twin.before[1].y

\* C16 as stated: after one step to the right the player's right edge is again
\* on the wall tile's left edge, velocity.x is 0 and y is unchanged.
C16_WallBlocks ==
    WallStepped /\ twin.before[1].speed = WallSpeed => BlockedByWall

\* the overlap on Y of the box of e with the tile at its right
WallDepthY(e, tm) ==
    LET tileY == CellAtRight(e, tm)[2] * tm.tileSize
    IN  Min(e.y + e.height - tileY, tileY + tm.tileSize - e.y)

\* C16, with the overlap on Y stated: when the player's overlap on Y with the
\* wall tile is greater than the distance it moves in the step, then after one
\* step to the right its right edge is again on the wall tile's left edge,
\* velocity.x is 0 and y is unchanged.
C16_WallBlocksWhenDeeper ==
    WallStepped /\ WallDepthY(twin.before[1], tileMap)
                       > Displacement(twin.before[1].speed, frameTime) =>
        BlockedByWall

\* a player of speed 100 that reached into the row below the wall tile's row
\* has been stopped by the wall
C16_Witness ==
    /\ WallStepped /\ twin.before[1].speed = WallSpeed
    /\ WallDepthY(twin.before[1], tileMap) > Displacement(WallSpeed, frameTime)
    /\ WallDepthY(twin.before[1], tileMap) < twin.before[1].height
    /\ BlockedByWall

\* the index of the player of a pair, and of the other body
PlayerOf(pair) == IF pair[1].isPlayer THEN 1 ELSE 2

OtherOf(pair) == 3 - PlayerOf(pair)

\* what one call of the player's handler with the body other does to health
\* and to score
HealthLoss(other) == IF "enemy" \in other.tags THEN EnemyDamage ELSE 0

ScoreGain(other) ==
    IF "enemy" \notin other.tags /\ "collectible" \in other.tags
    THEN CollectibleScore ELSE 0

\* C23: resolveCollision on an overlapping pair with the player calls each
\* body's handler once with the other body: the player loses exactly 10 health
\* if the other is tagged enemy, otherwise gains exactly 10 score if it is
\* tagged collectible, and the other body's health and score stay; on a pair
\* that does not overlap nothing changes.
C23_CallbackOnce ==
    twin.applied = 1 =>
        LET p == PlayerOf(twin.before)
            o == OtherOf(twin.before)
        IN  IF checkCollision(twin.before[1], twin.before[2])
            THEN /\ entities[p].health = twin.before[p].health - HealthLoss(twin.before[o])
                 /\ entities[p].score = twin.before[p].score + ScoreGain(twin.before[o])
                 /\ entities[o].health = twin.before[o].health
                 /\ entities[o].score = twin.before[o].score
                 /\ entities[o].tags = twin.before[o].tags
            ELSE entities = twin.before

\* the player, second of the pair, has been hit by an overlapping body tagged
\* both enemy and collectible
C23_Witness ==
    /\ twin.applied = 1
    /\ PlayerOf(twin.before) = 2
    /\ checkCollision(twin.before[1], twin.before[2])
    /\ twin.before[1].tags = {"enemy", "collectible"}
    /\ entities[2].health = PlayerHealth - EnemyDamage
    /\ entities[2].score = 0

\* the unit vector of a Direction
Unit(direction) ==
    [x |-> IF direction = "RIGHT" THEN 1 ELSE IF direction = "LEFT" THEN -1 ELSE 0,
     y |-> IF direction = "DOWN" THEN 1 ELSE IF direction = "UP" THEN -1 ELSE 0]

OneAxis(v) == v.x = 0 \/ v.y = 0

\* C25: the velocity a step sets for the player is its speed along the
\* Direction held at that step and 0 across it ((0, 0) for NONE), whatever the
\* velocity was before; so through the step and after it at most one component
\* of the player's velocity is not 0, and none is left over from another
\* Direction.
C25_VelocityFromDirection ==
    player # 0 =>
        LET e == entities[player]
            d == Unit(getDirection(keys))
            set == applyInput(entities, player, keys)
            moved == integrate(set, frameTime)
            onGrid == resolveAllTiles(moved, tileMap, mapSet)
            paired == resolvePairs(onGrid, 1, 2)
        IN  /\ set[player].velocity = [x |-> e.speed * d.x, y |-> e.speed * d.y]
            /\ moved[player].velocity = set[player].velocity
            /\ OneAxis(onGrid[player].velocity)
            /\ OneAxis(paired[player].velocity)
            /\ OneAxis(e.velocity)
            /\ last.steps > 0 =>
                 /\ e.velocity.x \in {0, e.speed * d.x}
                 /\ e.velocity.y \in {0, e.speed * d.y}

\* a step has just moved the player down, after earlier steps had moved it to
\* the right of where it started
C25_Witness ==
    /\ player # 0
    /\ last.steps > 0
    /\ keys = {"arrowdown"}
    /\ entities[player].velocity = [x |-> 0, y |-> PlayerSpeed]
    /\ entities[player].x > SpawnPoint(tileMap)[1]

\* the cells checkTileCollision reports for body e
Reported(e, tm) ==
    LET tiles == checkTileCollision(e, tm)
    IN  {<<tiles[i].x, tiles[i].y>> : i \in 1..Len(tiles)}

\* C33: for a solid body, checkTileCollision reports a collision exactly when
\* the body's box shares positive area with the rectangle of a solid cell of
\* the map, and the cells it reports are exactly those cells.
C33_TileOverlapsExact ==
    \A i \in 1..Len(entities) :
        entities[i].solid =>
            /\ Reported(entities[i], tileMap) = SolidUnder(entities[i], tileMap)
            /\ checkTileCollision(entities[i], tileMap) # <<>>
                   <=> SolidUnder(entities[i], tileMap) # {}

-----------------------------------------------------------------------------
(* Properties of checkGameState                                            *)

\* the layer-0 cell that holds the player's top-left corner has kind End
OnEnd ==
    /\ mapSet /\ player # 0
    /\ getTile(tileMap, 0, entities[player].x \div tileMap.tileSize,
                           entities[player].y \div tileMap.tileSize).type = END

\* the last action was a frame that ran physics steps, none of which restarted
Stepped == last.steps > 0 /\ last.restarted = 0

\* C2: a step that ends with the player on the End cell and health <= 0 ends
\* with gameOver and won both true.
C2_WinBeforeLose ==
    Stepped /\ OnEnd /\ entities[player].health <= 0 =>
        state.gameOver /\ state.won

\* C3: a step that ends with the player on the End cell and health > 0 ends
\* with gameOver and won both true.
C3_WinOnEnd ==
    Stepped /\ OnEnd /\ entities[player].health > 0 =>
        state.gameOver /\ state.won

\* a step has just ended with a healthy player on the End cell, and the game is won
C3_Witness ==
    /\ Stepped /\ OnEnd /\ entities[player].health > 0
    /\ state.gameOver /\ state.won

\* C4: a step that ends with health <= 0 and the player not on the End cell
\* ends with gameOver true and won false.
C4_LoseOffEnd ==
    Stepped /\ player # 0 /\ ~OnEnd /\ entities[player].health <= 0 =>
        state.gameOver /\ ~state.won

\* a step has just ended with a dead player away from the End cell, and the
\* game is lost
C4_Witness ==
    /\ Stepped /\ player # 0 /\ ~OnEnd /\ entities[player].health <= 0
    /\ state.gameOver /\ ~state.won


-----------------------------------------------------------------------------
(* Properties of the restart key                                           *)

\* C5: when the restart key went down while gameOver held and is still down,
\* the first frame that runs a physics step afterwards calls restart(), and so
\* leaves gameOver false.
C5_RestartOnPress ==
    last.steps > 0 /\ last.wasArmed =>
        last.restarted >= 1 /\ ~state.gameOver


\* body e stands at the world position of a Start cell of layer 0
AtStart(e, tm) ==
    \E c \in Cells(tm) :
        /\ getTile(tm, 0, c[1], c[2]).type = START
        /\ e.x = c[1] * tm.tileSize
        /\ e.y = c[2] * tm.tileSize

\* C6: a call of restart() made while gameOver holds leaves running true,
\* gameOver and won false, the player's health 100 and score 0, and the player
\* at the world position of the maze's Start cell.
C6_RestartPostcondition ==
    [][state.gameOver /\ last'.restarted > 0 =>
          /\ state'.running /\ ~state'.gameOver /\ ~state'.won
          /\ player # 0 =>
                /\ entities'[player].health = 100
                /\ entities'[player].score = 0
                /\ AtStart(entities'[player], tileMap)]_vars

-----------------------------------------------------------------------------
(* Properties of gameOver                                                  *)

-----------------------------------------------------------------------------
(* Properties of pause, stop and start                                     *)

\* C17: a call of update() made while the loop is paused or not running
\* changes no body and no field of GameState, and neither does a frame
\* callback that runs while the loop is paused.
C17_NoStepWhilePaused ==
    [][(paused \/ ~running) /\ (Update \/ GameLoop) =>
          /\ entities' = entities
          /\ state' = state]_vars

\* C18: after stop(), until a later start(), a frame callback (the one already
\* scheduled or any later one) runs no physics step and changes no body and no
\* GameState field; and a callback that does run steps runs the whole batch the
\* accumulated time calls for, stop() taking effect only between callbacks.
C18_StopCancels ==
    [][GameLoop =>
         /\ ~running =>
               /\ entities' = entities
               /\ state' = state
               /\ accumulator' = accumulator
               /\ last'.steps = 0
         /\ running /\ ~paused =>
               /\ last'.steps = (accumulator + sinceLast) \div frameTime
               /\ accumulator' < frameTime
               /\ running' = running]_vars

\* the callback scheduled before stop() has run and gone, with a key held and a
\* step's worth of time waiting
C18_Witness ==
    /\ mapSet
    /\ ~running
    /\ ~paused
    /\ pending = 0
    /\ keys # {}
    /\ accumulator + sinceLast >= frameTime

\* C19: start() on a running loop changes no flag (paused stays as it was) and
\* schedules no frame callback; on a stopped loop it sets running, clears
\* paused, in the engine and in GameState, and schedules exactly one callback.
C19_StartOnce ==
    [][Start =>
         IF running
         THEN /\ running' = running
              /\ paused' = paused
              /\ state' = state
              /\ pending' = pending
         ELSE /\ running'
              /\ ~paused'
              /\ state'.running
              /\ ~state'.paused
              /\ pending' = pending + 1]_vars

\* start() has acted on a stopped loop whose last callback had not yet run:
\* two callbacks are scheduled
C19_Witness ==
    /\ mapSet
    /\ running
    /\ ~paused
    /\ pending = 2

\* C26: a frame callback of a running loop that is not paused, with
\* accumulator a and frame delta d >= 0, runs floor((a + d) / frameTime) steps
\* and leaves (a + d) mod frameTime in the accumulator; the accumulator is at
\* least 0 and less than frameTime after every callback.
C26_AccumulatorRemainder ==
    [][/\ GameLoop /\ running /\ ~paused =>
            /\ last'.steps = (accumulator + sinceLast) \div frameTime
            /\ accumulator' = (accumulator + sinceLast) - frameTime * last'.steps
       /\ accumulator' >= 0
       /\ accumulator' < frameTime]_vars

\* a callback has run two steps
C26_Witness ==
    /\ running
    /\ ~paused
    /\ last.steps = 2
    /\ accumulator < frameTime

\* C28: whatever the order of start(), stop() and frame callbacks, the engine
\* never has two gameLoop callbacks scheduled at once.
C28_OneCallbackPending == pending <= 1

\* C29: in every state reached by start, pause, resume, stop, restart and
\* frame callbacks, the GameState agrees with the loop's own flags:
\* state.running = running and state.paused = paused.
C29_StateMirrorsFlags ==
    /\ state.running = running
    /\ state.paused = paused

\* C30: time that passes while the loop is paused or stopped is never added
\* to the accumulator: the steps a frame callback runs and the remainder it
\* leaves account for the accumulator before it and the time since the last
\* reading of the clock that passed while the loop was running and not paused.
C30_IdleTimeNotCounted ==
    [][GameLoopIdle /\ running /\ ~paused =>
         accumulator' + frameTime * last'.steps
             = accumulator + (sinceLast - twin.idle)]_vars

-----------------------------------------------------------------------------
(* Properties of the tile map                                              *)

\* the last call named a layer, a column or a row that the map does not have
Outside ==
    /\ twin.applied > 0
    /\ ~ /\ twin.before.layerIndex \in 0..(Len(twin.before.map.layers) - 1)
         /\ twin.before.x \in 0..(twin.before.map.width - 1)
         /\ twin.before.y \in 0..(twin.before.map.height - 1)

\* C20: with a layer index, x or y outside the map, getTile returns null and
\* setTile leaves every tile of every layer as it was.
C20_OutOfRangeAbsorbed ==
    Outside =>
        /\ twin.before.name = "getTile" => twin.before.got = NullTile
        /\ twin.before.name = "setTile" => tileMap = twin.before.map

\* setTile was called one column past the right edge of a map that has a
\* layer and already holds a wall
C20_Witness ==
    /\ Outside
    /\ twin.before.name = "setTile"
    /\ twin.before.layerIndex = 0
    /\ twin.before.x = tileMap.width
    /\ twin.before.y = 0
    /\ getTile(tileMap, 0, 0, 0) = WallTile

\* C21: createLayer(id) with an id that a layer already has fails and leaves
\* the layers as they were; otherwise it appends one layer, all EMPTY and not
\* solid; so no two layers of a map have the same id.
C21_LayerIdsUnique ==
    /\ \A i, j \in 1..Len(tileMap.layers) :
         tileMap.layers[i].id = tileMap.layers[j].id => i = j
    /\ twin.applied > 0 /\ twin.before.name = "createLayer" =>
         IF \E i \in 1..Len(twin.before.map.layers) :
                twin.before.map.layers[i].id = twin.before.got
         THEN tileMap = twin.before.map
         ELSE /\ Len(tileMap.layers) = Len(twin.before.map.layers) + 1
              /\ \A c \in Cells(tileMap) :
                   getTile(tileMap, Len(tileMap.layers) - 1, c[1], c[2]) = EmptyTile

\* C22: constructing a map with a width, a height or a tile size that is not
\* positive fails, so every map there is has all three positive.
C22_PositiveShape ==
    /\ tileMap.width > 0
    /\ tileMap.height > 0
    /\ tileMap.tileSize > 0

-----------------------------------------------------------------------------
(* Properties of two runs                                                  *)

\* C8: two runs from the same state that are given the same Direction at each
\* physics step have, after each step both have made, the same positions and
\* velocities of all bodies, however their frame callbacks batch the steps.
C8_BatchingDeterminism ==
    twin.forked =>
        \A k \in 1..Min(Len(twin.trajA), Len(twin.trajB)) :
            Motion(twin.trajA[k]) = Motion(twin.trajB[k])

\* both runs were delivered the same time and made MaxDetSteps steps in a
\* different number of frames, the Direction changed on the way, and the
\* player has moved
C8_Witness ==
    /\ twin.forked
    /\ Len(twin.trajA) = MaxDetSteps /\ Len(twin.trajB) = MaxDetSteps
    /\ twin.timeA = twin.timeB
    /\ twin.framesA # twin.framesB
    /\ \E i, j \in 1..Len(twin.script) : twin.script[i] # twin.script[j]
    /\ Motion(twin.trajA[MaxDetSteps]) # Motion(twin.trajA[1])

=============================================================================
